---- MODULE Spec2Model ----
(***************************************************************************)
(* A model of the peak-model composition engine TSinglePeak                 *)
(* (src/libraries/TGRSIAnalysis/TPeakFitting/TSinglePeak.cxx) and of        *)
(* TGRSIRunInfo::Add (src/include/TGRSIRunInfo.h) and TBGOData              *)
(* (src/include/TBGOData.h).                                               *)
(*                                                                         *)
(* Double_t values are modelled by small integers: every property checked  *)
(* here is about which entries are read, copied and added, and one         *)
(* addition of two doubles is one addition here.  A TF1* is either NullPtr *)
(* or the record of the TF1 it points to.                                  *)
(***************************************************************************)
EXTENDS Integers, Sequences, FiniteSets, TLC

\* ---- bounds of the model ------------------------------------------------
MaxNpar == 2         \* largest parameter count N of a Total Function
MaxGlobalNpar == 2   \* largest parameter count M of a Global Background
MaxVal == 1          \* parameter values range over 0..MaxVal
MaxX == 2            \* the independent variable ranges over 0..MaxX
MaxRun == 1          \* run numbers range over 0..MaxRun
MaxSubRun == 2       \* sub run numbers range over -1..MaxSubRun
MaxTime == 1         \* run start/stop times range over 0..MaxTime
MaxLength == 2       \* accumulated run length is capped at MaxLength
MaxHits == 2         \* at most MaxHits SetBGO calls on one TBGOData

\* ---- program constants --------------------------------------------------
BgLineStyle == 9     \* fBackgroundFunction->SetLineStyle(9)

VARIABLES
    fTotalFunction,      \* TF1* fTotalFunction
    fBackgroundFunction, \* TF1* fBackgroundFunction
    fGlobalBackground,   \* TF1* fGlobalBackground (not owned)
    fListOfBGPars,       \* std::vector<bool> fListOfBGPars
    nConstructed,        \* how many "peak_bg" TF1 objects have been constructed
    liveTmp,             \* how many "draw_peak" TF1 objects are alive on the heap
    crashed,             \* the process died on an invalid memory access
    ret,                 \* the last call: its name, arguments and outcome
    fRunNumber,          \* TGRSIRunInfo::fRunNumber
    fSubRunNumber,       \* TGRSIRunInfo::fSubRunNumber
    fRunStart,           \* TGRSIRunInfo::fRunStart
    fRunStop,            \* TGRSIRunInfo::fRunStop
    fRunLength,          \* TGRSIRunInfo::fRunLength
    meaningless,         \* an Add has taken a branch that resets the sub run number
    args,                \* the arguments of the evaluations and classifications
    fBGO_CloverNbr,      \* std::vector<UShort_t> TBGOData::fBGO_CloverNbr
    fBGO_CrystalNbr,     \* std::vector<UShort_t> TBGOData::fBGO_CrystalNbr
    fBGO_PmNbr,          \* std::vector<UShort_t> TBGOData::fBGO_PmNbr
    fBGO_Charge,         \* std::vector<Int_t>    TBGOData::fBGO_Charge
    fBGO_Energy,         \* std::vector<Double_t> TBGOData::fBGO_Energy
    fBGO_TimeCFD,        \* std::vector<Double_t> TBGOData::fBGO_TimeCFD
    fBGO_TimeLED,        \* std::vector<Double_t> TBGOData::fBGO_TimeLED
    fBGO_Time            \* std::vector<Double_t> TBGOData::fBGO_Time

peakVars == <<fTotalFunction, fBackgroundFunction, fGlobalBackground, fListOfBGPars,
              nConstructed, liveTmp, crashed>>
runVars == <<fRunNumber, fSubRunNumber, fRunStart, fRunStop, fRunLength, meaningless>>
bgoVars == <<fBGO_CloverNbr, fBGO_CrystalNbr, fBGO_PmNbr, fBGO_Charge, fBGO_Energy,
             fBGO_TimeCFD, fBGO_TimeLED, fBGO_Time>>
vars == <<peakVars, ret, runVars, args, bgoVars>>

\* A TBGOData's vectors while another class is looked at.
BGOIdle ==
    /\ fBGO_CloverNbr = <<>>
    /\ fBGO_CrystalNbr = <<>>
    /\ fBGO_PmNbr = <<>>
    /\ fBGO_Charge = <<>>
    /\ fBGO_Energy = <<>>
    /\ fBGO_TimeCFD = <<>>
    /\ fBGO_TimeLED = <<>>
    /\ fBGO_Time = <<>>

NullPtr == [null |-> TRUE]

ParValues == 0..MaxVal
XValues == 0..MaxX

\* All parameter vectors of length n.
ParVectors(n) == [1..n -> ParValues]

\* new TF1(name, this, &member, xmin, xmax, npar, ...): npar parameters, all 0,
\* ROOT's default line attributes.
NewTF1(name, id, xmin, xmax, npar) ==
    [null |-> FALSE, name |-> name, id |-> id, xmin |-> xmin, xmax |-> xmax,
     npar |-> npar, params |-> [i \in 1..npar |-> 0],
     lineStyle |-> 1, lineColor |-> 1]

\* TF1::SetParameters(const Double_t* params): copies the function's own npar
\* values from the array.
SetParameters(f, array) == [f EXCEPT !.params = [i \in 1..f.npar |-> array[i]]]

\* TF1::SetParameter(i, value), i counted from 0.
SetParameter(f, i, value) == [f EXCEPT !.params[i + 1] = value]

NoCall == [op |-> "none", err |-> "none"]

NoArgs == [kind |-> "none"]

\* ---- the classification table -------------------------------------------

\* std::vector<bool>::at(par) throws std::out_of_range: the Int_t index is
\* converted to size_t, so a negative index becomes a value above any size.
OutOfRange(par) == par < 0 \/ par >= Len(fListOfBGPars)

\* TSinglePeak::IsBackgroundParameter: the exception is caught, logged and
\* answered with true; no error reaches the caller.
IsBackgroundParameter(par) ==
    IF OutOfRange(par)
    THEN [val |-> TRUE, err |-> "none", logged |-> TRUE]
    ELSE [val |-> fListOfBGPars[par + 1], err |-> "none", logged |-> FALSE]

\* A faulty variant: IsPeakParameter special-cases an invalid index itself.
IsPeakParameterSpecialCase(par) ==
    IF OutOfRange(par)
    THEN [val |-> FALSE, err |-> "IndexOutOfRange", logged |-> FALSE]
    ELSE [IsBackgroundParameter(par) EXCEPT !.val = ~IsBackgroundParameter(par).val]

\* TSinglePeak::IsPeakParameter
IsPeakParameter(par) ==
    [IsBackgroundParameter(par) EXCEPT !.val = ~IsBackgroundParameter(par).val]

\* TSinglePeak::GetNParameters
GetNParameters ==
    IF fTotalFunction # NullPtr THEN fTotalFunction.npar ELSE 0

\* ---- the evaluable functions --------------------------------------------

RECURSIVE Pow(_, _)
Pow(x, k) == IF k = 0 THEN 1 ELSE x * Pow(x, k - 1)

\* The peak shape of one peak parameter at x (never 0).
PeakShape(x) == x * x + 1

\* How many background parameters precede index i of the table.
BgRank(i) == Cardinality({j \in 1..(i - 1) : fListOfBGPars[j]})

RECURSIVE PeakSum(_, _, _)
PeakSum(x, par, i) ==
    IF i = 0 THEN 0
    ELSE PeakSum(x, par, i - 1)
         + (IF fListOfBGPars[i] THEN 0 ELSE par[i] * PeakShape(x))

RECURSIVE BackgroundSum(_, _, _)
BackgroundSum(x, par, i) ==
    IF i = 0 THEN 0
    ELSE BackgroundSum(x, par, i - 1)
         + (IF fListOfBGPars[i] THEN par[i] * Pow(x, BgRank(i)) ELSE 0)

\* The peak shape of the concrete model: it reads the full parameter vector
\* and uses the entries classified as peak parameters only.
PeakFunction(x, par) == PeakSum(x, par, Len(fListOfBGPars))

\* The background shape of the concrete model: a polynomial in x whose
\* coefficients are the entries classified as background parameters.
BackgroundFunction(x, par) == BackgroundSum(x, par, Len(fListOfBGPars))

RECURSIVE PolySum(_, _, _, _)
PolySum(x, par, off, k) ==
    IF k = 0 THEN 0
    ELSE PolySum(x, par, off, k - 1) + par[off + k] * Pow(x, k - 1)

\* fGlobalBackground->EvalPar(dim, p): the global background, a polynomial,
\* evaluated on its own npar entries starting at p = &par[off].
EvalPar(f, x, par, off) == PolySum(x, par, off, f.npar)

\* A faulty variant: the background term is dropped.
TotalFunctionPeakOnly(x, par) == PeakFunction(x, par)

\* TSinglePeak::TotalFunction
TotalFunction(x, par) == PeakFunction(x, par) + BackgroundFunction(x, par)

\* A faulty variant: the global background is handed par instead of &par[N].
PeakOnGlobalFunctionNoOffset(x, par) ==
    IF fGlobalBackground = NullPtr
    THEN {[val |-> 0, crash |-> FALSE]}
    ELSE {[val |-> PeakFunction(x, par) + EvalPar(fGlobalBackground, x, par, 0),
           crash |-> FALSE]}

\* TSinglePeak::PeakOnGlobalFunction: the set of outcomes the call can have.
\* With a global background attached and fTotalFunction null, GetNpar() is
\* called through a null pointer: the process dies, or some value is produced.
PeakOnGlobalFunction(x, par) ==
    IF fGlobalBackground = NullPtr
    THEN {[val |-> 0, crash |-> FALSE]}
    ELSE IF fTotalFunction # NullPtr
    THEN {[val |-> PeakFunction(x, par)
                   + EvalPar(fGlobalBackground, x, par, fTotalFunction.npar),
           crash |-> FALSE]}
    ELSE {[val |-> 0, crash |-> TRUE]}
         \cup {[val |-> v, crash |-> FALSE] : v \in ParValues}

\* ---- the operations that change a TSinglePeak -----------------------------

\* A faulty variant: the cached function is not looked at, every call constructs.
GetBackgroundFunctionAlways ==
    /\ ~crashed
    /\ fTotalFunction # NullPtr
    /\ fBackgroundFunction' =
           [NewTF1("peak_bg", nConstructed + 1, 0, 1, fTotalFunction.npar)
               EXCEPT !.lineStyle = BgLineStyle]
    /\ nConstructed' = nConstructed + 1
    /\ ret' = [op |-> "GetBackgroundFunction", err |-> "none",
               val |-> nConstructed + 1, created |-> TRUE]
    /\ UNCHANGED <<fTotalFunction, fGlobalBackground, fListOfBGPars, liveTmp, crashed>>
    /\ UNCHANGED <<runVars, args, bgoVars>>

\* TSinglePeak::GetBackgroundFunction.  With fTotalFunction null the first
\* call reads GetNpar() through a null pointer: the process dies, or the
\* function is constructed with whatever count was read.
GetBackgroundFunction ==
    /\ ~crashed
    /\ \/ /\ fBackgroundFunction # NullPtr
          /\ ret' = [op |-> "GetBackgroundFunction", err |-> "none",
                     val |-> fBackgroundFunction.id, created |-> FALSE]
          /\ UNCHANGED <<fBackgroundFunction, nConstructed, crashed>>
       \/ /\ fBackgroundFunction = NullPtr
          /\ fTotalFunction # NullPtr
          /\ fBackgroundFunction' =
                 [NewTF1("peak_bg", nConstructed + 1, 0, 1, fTotalFunction.npar)
                     EXCEPT !.lineStyle = BgLineStyle]
          /\ nConstructed' = nConstructed + 1
          /\ ret' = [op |-> "GetBackgroundFunction", err |-> "none",
                     val |-> nConstructed + 1, created |-> TRUE]
          /\ UNCHANGED crashed
       \/ /\ fBackgroundFunction = NullPtr
          /\ fTotalFunction = NullPtr
          /\ \/ /\ crashed' = TRUE
                /\ ret' = [op |-> "GetBackgroundFunction", err |-> "none",
                           val |-> 0, created |-> FALSE]
                /\ UNCHANGED <<fBackgroundFunction, nConstructed>>
             \/ \E g \in 0..MaxNpar :
                /\ fBackgroundFunction' =
                       [NewTF1("peak_bg", nConstructed + 1, 0, 1, g)
                           EXCEPT !.lineStyle = BgLineStyle]
                /\ nConstructed' = nConstructed + 1
                /\ ret' = [op |-> "GetBackgroundFunction", err |-> "none",
                           val |-> nConstructed + 1, created |-> TRUE]
                /\ UNCHANGED crashed
    /\ UNCHANGED <<fTotalFunction, fGlobalBackground, fListOfBGPars, liveTmp>>
    /\ UNCHANGED <<runVars, args, bgoVars>>

\* A faulty variant: the variadic overload SetParameters(p0, p1, ...) is hit and only
\* the first value arrives.
UpdateBackgroundParametersFirstOnly ==
    /\ ~crashed
    /\ fBackgroundFunction # NullPtr
    /\ fTotalFunction # NullPtr
    /\ fBackgroundFunction' =
           SetParameter(fBackgroundFunction, 0, fTotalFunction.params[1])
    /\ ret' = [op |-> "UpdateBackgroundParameters", err |-> "none"]
    /\ UNCHANGED <<fTotalFunction, fGlobalBackground, fListOfBGPars,
                   nConstructed, liveTmp, crashed>>
    /\ UNCHANGED <<runVars, args, bgoVars>>

\* TSinglePeak::UpdateBackgroundParameters.  Neither pointer is checked: with
\* either of them null (or an array shorter than the background function's
\* count) the call is an invalid access: the process dies, or it goes on with
\* nothing written (no background function) or with whatever values were read.
UpdateBackgroundParameters ==
    /\ ~crashed
    /\ \/ /\ fBackgroundFunction # NullPtr
          /\ fTotalFunction # NullPtr
          /\ fBackgroundFunction.npar <= fTotalFunction.npar
          /\ fBackgroundFunction' =
                 SetParameters(fBackgroundFunction, fTotalFunction.params)
          /\ UNCHANGED crashed
       \/ /\ \/ fBackgroundFunction = NullPtr
             \/ fTotalFunction = NullPtr
             \/ /\ fBackgroundFunction # NullPtr
                /\ fTotalFunction # NullPtr
                /\ fBackgroundFunction.npar > fTotalFunction.npar
          /\ \/ /\ crashed' = TRUE
                /\ UNCHANGED fBackgroundFunction
             \/ /\ fBackgroundFunction = NullPtr
                /\ UNCHANGED <<fBackgroundFunction, crashed>>
             \/ /\ fBackgroundFunction # NullPtr
                /\ \E v \in ParValues :
                      fBackgroundFunction' =
                          SetParameters(fBackgroundFunction,
                                        [i \in 1..fBackgroundFunction.npar |-> v])
                /\ UNCHANGED crashed
    /\ ret' = [op |-> "UpdateBackgroundParameters", err |-> "none"]
    /\ UNCHANGED <<fTotalFunction, fGlobalBackground, fListOfBGPars,
                   nConstructed, liveTmp>>
    /\ UNCHANGED <<runVars, args, bgoVars>>

\* A faulty variant: the second loop writes at i instead of i + N.
DrawPeakNoOffset(t, g) ==
    [NewTF1("draw_peak", 0, g.xmin, g.xmax, t.npar + g.npar)
        EXCEPT !.params = [i \in 1..(t.npar + g.npar) |->
                              IF i <= g.npar THEN g.params[i]
                              ELSE IF i <= t.npar THEN t.params[i]
                              ELSE 0],
               !.lineColor = t.lineColor,
               !.lineStyle = t.lineStyle]

\* The temporary function Draw builds from a total function t and a global
\* background g: g's range, N + M parameters, t's values at 0..N-1, g's
\* values at N..N+M-1, t's line attributes.
DrawPeak(t, g) ==
    [NewTF1("draw_peak", 0, g.xmin, g.xmax, t.npar + g.npar)
        EXCEPT !.params = [i \in 1..(t.npar + g.npar) |->
                              IF i <= t.npar THEN t.params[i]
                              ELSE g.params[i - t.npar]],
               !.lineColor = t.lineColor,
               !.lineStyle = t.lineStyle]

\* TSinglePeak::Draw.  The temporary function is allocated, filled, drawn and
\* deleted within the call.  With a global background attached and
\* fTotalFunction null, GetNpar() is called through a null pointer: the
\* process dies with the call unfinished, or a function of whatever size and
\* values were read is drawn and deleted.
Draw ==
    /\ ~crashed
    /\ \/ /\ fGlobalBackground = NullPtr
          /\ ret' = [op |-> "Draw", err |-> "none", built |-> FALSE]
          /\ UNCHANGED <<liveTmp, crashed>>
       \/ /\ fGlobalBackground # NullPtr
          /\ fTotalFunction # NullPtr
          /\ ret' = [op |-> "Draw", err |-> "none", built |-> TRUE,
                     curve |-> DrawPeak(fTotalFunction, fGlobalBackground)]
          /\ liveTmp' = (liveTmp + 1) - 1
          /\ UNCHANGED crashed
       \/ /\ fGlobalBackground # NullPtr
          /\ fTotalFunction = NullPtr
          /\ \/ /\ crashed' = TRUE
                /\ ret' = [op |-> "Draw", err |-> "none", built |-> FALSE]
                /\ UNCHANGED liveTmp
             \/ \E n \in 0..MaxNpar, v \in ParValues :
                /\ ret' = [op |-> "Draw", err |-> "none", built |-> TRUE,
                           curve |-> DrawPeak([NewTF1("garbage", 0, 0, 0, n)
                                                 EXCEPT !.params = [i \in 1..n |-> v]],
                                             fGlobalBackground)]
                /\ liveTmp' = (liveTmp + 1) - 1
                /\ UNCHANGED crashed
    /\ UNCHANGED <<fTotalFunction, fBackgroundFunction, fGlobalBackground,
                   fListOfBGPars, nConstructed>>
    /\ UNCHANGED <<runVars, args, bgoVars>>

\* TSinglePeak::SetGlobalBackground: a global background of m parameters with
\* the values p is attached; the peak model only refers to it.
SetGlobalBackground(m, p) ==
    /\ ~crashed
    /\ fGlobalBackground = NullPtr
    /\ fGlobalBackground' = [NewTF1("global_bg", 0, 0, MaxX, m) EXCEPT !.params = p]
    /\ ret' = [op |-> "SetGlobalBackground", err |-> "none"]
    /\ UNCHANGED <<fTotalFunction, fBackgroundFunction, fListOfBGPars,
                   nConstructed, liveTmp, crashed>>
    /\ UNCHANGED <<runVars, args, bgoVars>>

\* The optimizer's step: parameter i of the Total Function becomes v.
Fit(i, v) ==
    /\ ~crashed
    /\ fTotalFunction # NullPtr
    /\ i < fTotalFunction.npar
    /\ fTotalFunction.params[i + 1] # v
    /\ fTotalFunction' = SetParameter(fTotalFunction, i, v)
    /\ ret' = [op |-> "Fit", err |-> "none"]
    /\ UNCHANGED <<fBackgroundFunction, fGlobalBackground, fListOfBGPars,
                   nConstructed, liveTmp, crashed>>
    /\ UNCHANGED <<runVars, args, bgoVars>>

\* ---- the operations that only read a TSinglePeak --------------------------

\* IsBackgroundParameter(args.par)
CallIsBackgroundParameter ==
    /\ ~crashed
    /\ args.kind = "index"
    /\ ret' = [op |-> "IsBackgroundParameter", arg |-> args.par]
                 @@ IsBackgroundParameter(args.par)
    /\ UNCHANGED <<peakVars, runVars, args, bgoVars>>

\* IsPeakParameter(args.par)
CallIsPeakParameter ==
    /\ ~crashed
    /\ args.kind = "index"
    /\ ret' = [op |-> "IsPeakParameter", arg |-> args.par]
                 @@ IsPeakParameter(args.par)
    /\ UNCHANGED <<peakVars, runVars, args, bgoVars>>

\* GetNParameters()
CallGetNParameters ==
    /\ ~crashed
    /\ ret' = [op |-> "GetNParameters", err |-> "none", val |-> GetNParameters]
    /\ UNCHANGED <<peakVars, runVars, args, bgoVars>>

\* TotalFunction(args.x, args.par)
CallTotalFunction ==
    /\ ~crashed
    /\ args.kind = "point"
    /\ ret' = [op |-> "TotalFunction", err |-> "none", x |-> args.x,
               par |-> args.par, val |-> TotalFunction(args.x, args.par)]
    /\ UNCHANGED <<peakVars, runVars, args, bgoVars>>

\* PeakOnGlobalFunction(args.x, args.par)
CallPeakOnGlobalFunction ==
    /\ ~crashed
    /\ args.kind = "point"
    /\ \E out \in PeakOnGlobalFunction(args.x, args.par) :
          /\ ret' = [op |-> "PeakOnGlobalFunction", err |-> "none", x |-> args.x,
                     par |-> args.par, val |-> out.val]
          /\ crashed' = out.crash
    /\ UNCHANGED <<fTotalFunction, fBackgroundFunction, fGlobalBackground,
                   fListOfBGPars, nConstructed, liveTmp>>
    /\ UNCHANGED <<runVars, args, bgoVars>>

\* ---- the specifications of a TSinglePeak ----------------------------------

\* TGRSIRunInfo's fields while a TSinglePeak is looked at.
RunIdle ==
    /\ fRunNumber = 0
    /\ fSubRunNumber = -1
    /\ fRunStart = 0
    /\ fRunStop = 0
    /\ fRunLength = 0
    /\ meaningless = FALSE

\* The total functions a concrete peak's constructor leaves behind: none
\* (TSinglePeak's own constructor) or one of n parameters.
TotalFunctions ==
    {NullPtr} \cup {NewTF1("total", 0, 0, MaxX, n) : n \in 1..MaxNpar}

\* The classification table of a peak of n parameters whose first parameter
\* belongs to the peak and whose other parameters belong to the background.
PeakFirstTable(n) == [i \in 1..n |-> i > 1]

\* After construction: no background function, no global background, a
\* classification table with one entry per parameter of the total function.
InitPeak ==
    /\ fTotalFunction \in TotalFunctions
    /\ fBackgroundFunction = NullPtr
    /\ fGlobalBackground = NullPtr
    /\ fListOfBGPars = PeakFirstTable(GetNParameters)
    /\ nConstructed = 0
    /\ liveTmp = 0
    /\ crashed = FALSE
    /\ ret = NoCall
    /\ args = NoArgs

Init == InitPeak /\ RunIdle /\ BGOIdle

Next ==
    \/ GetBackgroundFunction
    \/ UpdateBackgroundParameters
    \/ Draw
    \/ \E m \in 1..MaxGlobalNpar : \E p \in ParVectors(m) : SetGlobalBackground(m, p)
    \/ \E i \in 0..(MaxNpar - 1), v \in ParValues : Fit(i, v)

Spec == Init /\ [][Next]_vars

\* The parameter count of the attached global background, 0 without one.
GlobalNpar == IF fGlobalBackground # NullPtr THEN fGlobalBackground.npar ELSE 0

\* The evaluations and classifications of a peak model in any configuration
\* (with or without a total function, any classification table, with or
\* without a global background) on any arguments: an index from -1 to N + 1,
\* or a point x with a parameter vector of length N + M.
InitEval ==
    /\ fTotalFunction \in TotalFunctions
    /\ fBackgroundFunction = NullPtr
    /\ fGlobalBackground \in
           {NullPtr} \cup {NewTF1("global_bg", 0, 0, MaxX, m) : m \in 1..MaxGlobalNpar}
    /\ fListOfBGPars \in [1..GetNParameters -> BOOLEAN]
    /\ nConstructed = 0
    /\ liveTmp = 0
    /\ crashed = FALSE
    /\ ret = NoCall
    /\ args \in {[kind |-> "index", par |-> i] : i \in -1..(GetNParameters + 1)}
           \cup {[kind |-> "point", x |-> x, par |-> p] :
                    x \in XValues, p \in ParVectors(GetNParameters + GlobalNpar)}
    /\ RunIdle
    /\ BGOIdle

NextEval ==
    \/ CallIsBackgroundParameter
    \/ CallIsPeakParameter
    \/ CallGetNParameters
    \/ CallTotalFunction
    \/ CallPeakOnGlobalFunction

SpecEval == InitEval /\ [][NextEval]_vars

\* ---- TGRSIRunInfo ----------------------------------------------------------

\* TGRSIRunInfo::Add(runinfo): the run lengths are added; the run number, sub
\* run number, run start and run stop are kept, carried forward or reset.
Add(runinfo) ==
    /\ fRunLength + runinfo.fRunLength <= MaxLength
    /\ fRunLength' =
           IF runinfo.fRunLength > 0
           THEN (IF fRunLength > 0 THEN fRunLength + runinfo.fRunLength
                 ELSE runinfo.fRunLength)
           ELSE fRunLength
    /\ IF runinfo.fRunNumber # fRunNumber
       THEN /\ fRunNumber' = 0
            /\ fSubRunNumber' = -1
            /\ fRunStart' = 0
            /\ fRunStop' = 0
            /\ meaningless' = TRUE
            /\ ret' = [op |-> "Add", err |-> "none", branch |-> "other run"]
       ELSE IF runinfo.fSubRunNumber = fSubRunNumber + 1
       THEN /\ fRunStop' = runinfo.fRunStop
            /\ fSubRunNumber' = runinfo.fSubRunNumber
            /\ ret' = [op |-> "Add", err |-> "none", branch |-> "next sub run"]
            /\ UNCHANGED <<fRunNumber, fRunStart, meaningless>>
       ELSE /\ fSubRunNumber' = -1
            /\ fRunStart' = 0
            /\ fRunStop' = 0
            /\ meaningless' = TRUE
            /\ ret' = [op |-> "Add", err |-> "none", branch |-> "not next sub run"]
            /\ UNCHANGED fRunNumber
    /\ UNCHANGED <<peakVars, args, bgoVars>>

\* The run infos handed to Add.
RunInfos ==
    [fRunNumber : 0..MaxRun, fSubRunNumber : -1..MaxSubRun,
     fRunStart : 0..MaxTime, fRunStop : 0..MaxTime, fRunLength : 0..MaxTime]

\* A TSinglePeak's fields while a TGRSIRunInfo is looked at.
PeakIdle ==
    /\ fTotalFunction = NullPtr
    /\ fBackgroundFunction = NullPtr
    /\ fGlobalBackground = NullPtr
    /\ fListOfBGPars = <<>>
    /\ nConstructed = 0
    /\ liveTmp = 0
    /\ crashed = FALSE

\* A run info as read from one file: any run, any sub run, nothing added yet.
InitRunInfo ==
    /\ fRunNumber \in 0..MaxRun
    /\ fSubRunNumber \in -1..MaxSubRun
    /\ fRunStart \in 0..MaxTime
    /\ fRunStop \in 0..MaxTime
    /\ fRunLength \in 0..MaxTime
    /\ meaningless = FALSE
    /\ ret = NoCall
    /\ args = NoArgs
    /\ PeakIdle
    /\ BGOIdle

NextRunInfo == \E runinfo \in RunInfos : Add(runinfo)

SpecRunInfo == InitRunInfo /\ [][NextRunInfo]_vars

\* ---- TBGOData ---------------------------------------------------------------

\* The conversion of an int to UShort_t.
UShort(v) == v % 65536

\* TBGOData::SetBGO(clover, crystal, pm, charge, energy, cfd, led, time): one
\* value is appended to each of the eight vectors.
SetBGO(BGOCloverNbr, BGOCrystalNbr, BGOPmNbr, BGOCharge, BGOEnergy, BGOTimeCFD, BGOTimeLED, BGOTime) ==
    /\ Len(fBGO_CloverNbr) < MaxHits
    /\ fBGO_CloverNbr' = Append(fBGO_CloverNbr, BGOCloverNbr)
    /\ fBGO_CrystalNbr' = Append(fBGO_CrystalNbr, BGOCrystalNbr)
    /\ fBGO_PmNbr' = Append(fBGO_PmNbr, BGOPmNbr)
    /\ fBGO_Charge' = Append(fBGO_Charge, BGOCharge)
    /\ fBGO_Energy' = Append(fBGO_Energy, BGOEnergy)
    /\ fBGO_TimeCFD' = Append(fBGO_TimeCFD, BGOTimeCFD)
    /\ fBGO_TimeLED' = Append(fBGO_TimeLED, BGOTimeLED)
    /\ fBGO_Time' = Append(fBGO_Time, BGOTime)
    /\ ret' = [op |-> "SetBGO", err |-> "none"]
    /\ UNCHANGED <<peakVars, runVars, args>>

\* The crystal number of an array sub position: its first letter decides.
CrystalNbr(arraysubposition) ==
    IF arraysubposition = "B" THEN 0
    ELSE IF arraysubposition = "G" THEN 1
    ELSE IF arraysubposition = "R" THEN 2
    ELSE IF arraysubposition = "W" THEN 3
    ELSE 5

\* TBGOData::SetBGO(frag, channel, mnemonic): the values are appended in the
\* order clover, crystal, PM, charge, CFD, LED, time; nothing is appended to
\* fBGO_Energy.  frag->Charge.at(0), Cfd.at(0) and Led.at(0) throw
\* std::out_of_range on an empty vector, and the call ends there with what was
\* appended before.
SetBGOFragment(frag, mnemonic) ==
    /\ Len(fBGO_CloverNbr) < MaxHits
    /\ fBGO_CloverNbr' = Append(fBGO_CloverNbr, UShort(mnemonic.arrayposition))
    /\ fBGO_CrystalNbr' =
           Append(fBGO_CrystalNbr, CrystalNbr(mnemonic.arraysubposition))
    /\ fBGO_PmNbr' = Append(fBGO_PmNbr, UShort(mnemonic.segment))
    /\ IF frag.Charge = <<>>
       THEN /\ ret' = [op |-> "SetBGO(frag)", err |-> "out_of_range"]
            /\ UNCHANGED <<fBGO_Charge, fBGO_TimeCFD, fBGO_TimeLED, fBGO_Time>>
       ELSE /\ fBGO_Charge' = Append(fBGO_Charge, frag.Charge[1])
            /\ IF frag.Cfd = <<>>
               THEN /\ ret' = [op |-> "SetBGO(frag)", err |-> "out_of_range"]
                    /\ UNCHANGED <<fBGO_TimeCFD, fBGO_TimeLED, fBGO_Time>>
               ELSE /\ fBGO_TimeCFD' = Append(fBGO_TimeCFD, frag.Cfd[1])
                    /\ IF frag.Led = <<>>
                       THEN /\ ret' = [op |-> "SetBGO(frag)", err |-> "out_of_range"]
                            /\ UNCHANGED <<fBGO_TimeLED, fBGO_Time>>
                       ELSE /\ fBGO_TimeLED' = Append(fBGO_TimeLED, frag.Led[1])
                            /\ fBGO_Time' = Append(fBGO_Time, frag.TimeToTrig)
                            /\ ret' = [op |-> "SetBGO(frag)", err |-> "none"]
    /\ UNCHANGED fBGO_Energy
    /\ UNCHANGED <<peakVars, runVars, args>>

\* TBGOData::GetBGOMultiplicity
GetBGOMultiplicity == Len(fBGO_PmNbr)

\* The vector a getter reads.
BGOVector(getter) ==
    CASE getter = "GetBGOCloverNumber" -> fBGO_CloverNbr
      [] getter = "GetBGOCoreNumber" -> fBGO_CrystalNbr
      [] getter = "GetBGOPmNbr" -> fBGO_PmNbr
      [] getter = "GetBGOCharge" -> fBGO_Charge
      [] getter = "GetBGOEnergy" -> fBGO_Energy
      [] getter = "GetBGOCFD" -> fBGO_TimeCFD
      [] getter = "GetBGOLED" -> fBGO_TimeLED
      [] getter = "GetBGOTime" -> fBGO_Time

BGOGetters ==
    {"GetBGOCloverNumber", "GetBGOCoreNumber", "GetBGOPmNbr", "GetBGOCharge",
     "GetBGOEnergy", "GetBGOCFD", "GetBGOLED", "GetBGOTime"}

\* A getter called with index i: vector.at(i) returns the value or throws
\* std::out_of_range.
GetBGO(getter, i) ==
    /\ ret' = IF i < Len(BGOVector(getter))
              THEN [op |-> getter, err |-> "none", arg |-> i,
                    val |-> BGOVector(getter)[i + 1]]
              ELSE [op |-> getter, err |-> "out_of_range", arg |-> i]
    /\ UNCHANGED <<peakVars, runVars, args, bgoVars>>

\* The hits handed to the first overload.
BGOHits ==
    {[clover |-> v, crystal |-> v % 4, pm |-> v, charge |-> v, energy |-> v,
      cfd |-> v, led |-> v, time |-> v] : v \in 0..MaxVal}

\* The fragments handed to the second overload whose Charge, Cfd and Led
\* hold a value each.
BGOFullFragments ==
    {[Charge |-> <<v>>, Cfd |-> <<v>>, Led |-> <<v>>, TimeToTrig |-> v] :
        v \in 0..MaxVal}

\* The fragments handed to the second overload with an empty Charge, Cfd or
\* Led.
BGOShortFragments ==
    {[Charge |-> c, Cfd |-> f, Led |-> l, TimeToTrig |-> 0] :
        c \in {<<>>, <<1>>}, f \in {<<>>, <<1>>}, l \in {<<>>, <<1>>}}
    \ {[Charge |-> <<1>>, Cfd |-> <<1>>, Led |-> <<1>>, TimeToTrig |-> 0]}

\* The mnemonics handed to the second overload.
BGOMnemonics ==
    {[arrayposition |-> v, arraysubposition |-> a, segment |-> v] :
        v \in 0..MaxVal, a \in {"B", "G", "R", "W", "X"}}

\* A TBGOData after construction: no hits.
InitBGO ==
    /\ BGOIdle
    /\ ret = NoCall
    /\ args = NoArgs
    /\ PeakIdle
    /\ RunIdle

NextBGO ==
    \/ \E h \in BGOHits :
          SetBGO(h.clover, h.crystal, h.pm, h.charge, h.energy, h.cfd, h.led, h.time)
    \/ \E frag \in BGOFullFragments, mnemonic \in BGOMnemonics :
          SetBGOFragment(frag, mnemonic)
    \/ \E frag \in BGOShortFragments, mnemonic \in BGOMnemonics :
          SetBGOFragment(frag, mnemonic)
    \/ \E getter \in BGOGetters, i \in 0..(MaxHits - 1) :
          i < GetBGOMultiplicity /\ GetBGO(getter, i)

SpecBGO == InitBGO /\ [][NextBGO]_vars

\* ---- the claims -------------------------------------------------------------

\* C1: for every x and every parameter vector, TotalFunction returns
\* PeakFunction + BackgroundFunction, both evaluated on the same full vector,
\* and nothing else.
C1_TotalIsPeakPlusBackground ==
    ret.op = "TotalFunction" =>
        ret.val = PeakFunction(ret.x, ret.par) + BackgroundFunction(ret.x, ret.par)

\* A total function was evaluated where both the peak and the background
\* contribute.
C1_Witness ==
    /\ ret.op = "TotalFunction"
    /\ PeakFunction(ret.x, ret.par) > 0
    /\ BackgroundFunction(ret.x, ret.par) > 0

\* C2: classifying an index outside [0, N) fails with IndexOutOfRange and
\* never answers with a default classification.
C2_OutOfRangeFails ==
    (/\ ret.op \in {"IsBackgroundParameter", "IsPeakParameter"}
     /\ (ret.arg < 0 \/ ret.arg >= Len(fListOfBGPars)))
        => ret.err = "IndexOutOfRange"

\* C3: IsPeakParameter is the negation of IsBackgroundParameter at every valid
\* index, and at every index the two have the same error outcome.
C3_PeakIsNotBackground ==
    ret.op = "IsPeakParameter" =>
        /\ ret.err = IsBackgroundParameter(ret.arg).err
        /\ ret.val \in BOOLEAN
        /\ (ret.arg \in 0..(Len(fListOfBGPars) - 1) =>
                ret.val = ~IsBackgroundParameter(ret.arg).val)

\* IsPeakParameter was asked about an index outside a non-empty table.
C3_Witness ==
    /\ ret.op = "IsPeakParameter"
    /\ Len(fListOfBGPars) > 0
    /\ ret.arg \notin 0..(Len(fListOfBGPars) - 1)

\* C4: over any sequence of operations the background function is constructed
\* at most once: the first GetBackgroundFunction creates it and every later
\* call returns that same instance.
C4_ConstructedAtMostOnce ==
    /\ nConstructed <= 1
    /\ (fBackgroundFunction # NullPtr =>
            nConstructed = 1 /\ fBackgroundFunction.id = 1)
    /\ ((ret.op = "GetBackgroundFunction" /\ ~crashed) =>
            fBackgroundFunction # NullPtr /\ ret.val = fBackgroundFunction.id)

\* A later GetBackgroundFunction call returned the cached instance.
C4_Witness ==
    /\ ret.op = "GetBackgroundFunction"
    /\ ~crashed
    /\ ret.created = FALSE
    /\ nConstructed = 1

\* C5: a background function that exists has the total function's parameter
\* count, and GetBackgroundFunction without a total function fails without
\* constructing anything.
C5_BackgroundAgreesWithN ==
    /\ (fBackgroundFunction # NullPtr =>
            fBackgroundFunction.npar = GetNParameters)
    /\ ((ret.op = "GetBackgroundFunction" /\ fTotalFunction = NullPtr) =>
            ret.err # "none" /\ ~crashed /\ fBackgroundFunction = NullPtr)

\* C6: PeakOnGlobalFunction returns 0 without a global background, and with one
\* it returns the peak function of the leading N entries plus the global
\* background of the trailing M entries, N the total function's count.
C6_PeakOnGlobal ==
    ret.op = "PeakOnGlobalFunction" =>
        /\ (fGlobalBackground = NullPtr => ret.val = 0 /\ ~crashed)
        /\ ((fGlobalBackground # NullPtr /\ fTotalFunction # NullPtr) =>
               /\ ~crashed
               /\ Len(ret.par) = fTotalFunction.npar + fGlobalBackground.npar
               /\ ret.val =
                      PeakFunction(ret.x, SubSeq(ret.par, 1, fTotalFunction.npar))
                      + EvalPar(fGlobalBackground, ret.x,
                                SubSeq(ret.par, fTotalFunction.npar + 1,
                                       Len(ret.par)), 0))

\* A peak on a global background was evaluated where both contribute.
C6_Witness ==
    /\ ret.op = "PeakOnGlobalFunction"
    /\ fGlobalBackground # NullPtr
    /\ fTotalFunction # NullPtr
    /\ PeakFunction(ret.x, ret.par) > 0
    /\ EvalPar(fGlobalBackground, ret.x, ret.par, fTotalFunction.npar) > 0

\* C7: after UpdateBackgroundParameters with a constructed background function
\* its value at every index below N is the total function's, and the total
\* function's values are the ones it had.
C7_UpdateCopies ==
    /\ [](((/\ ret.op = "UpdateBackgroundParameters"
            /\ ~crashed
            /\ fBackgroundFunction # NullPtr) =>
              \A i \in 1..GetNParameters :
                  fBackgroundFunction.params[i] = fTotalFunction.params[i]))
    /\ [][ret'.op = "UpdateBackgroundParameters" =>
              fTotalFunction' = fTotalFunction]_vars

\* An update copied values that differ from a new function's zeros.
C7_Witness ==
    /\ ret.op = "UpdateBackgroundParameters"
    /\ ~crashed
    /\ fBackgroundFunction # NullPtr
    /\ fTotalFunction # NullPtr
    /\ fTotalFunction.npar > 1
    /\ \A i \in 1..fTotalFunction.npar : fBackgroundFunction.params[i] > 0

\* C8: UpdateBackgroundParameters before the background function exists fails
\* with NotInitialized.
C8_UpdateBeforeConstructionFails ==
    (ret.op = "UpdateBackgroundParameters" /\ fBackgroundFunction = NullPtr)
        => (ret.err = "NotInitialized" /\ ~crashed)

\* C9: Draw changes nothing of the model; without a global background it builds
\* no curve; with one the curve has N + M parameters, the total function's
\* followed by the global background's, and is released when Draw returns.
C9_DrawKeepsState ==
    /\ [](ret.op = "Draw" =>
            /\ (fGlobalBackground = NullPtr => ~ret.built)
            /\ ((fGlobalBackground # NullPtr /\ fTotalFunction # NullPtr) =>
                   /\ ret.built
                   /\ ret.curve.npar = fTotalFunction.npar + fGlobalBackground.npar
                   /\ \A i \in 1..fTotalFunction.npar :
                          ret.curve.params[i] = fTotalFunction.params[i]
                   /\ \A j \in 1..fGlobalBackground.npar :
                          ret.curve.params[fTotalFunction.npar + j]
                              = fGlobalBackground.params[j])
            /\ (~crashed => liveTmp = 0))
    /\ [][ret'.op = "Draw" =>
              UNCHANGED <<fTotalFunction, fGlobalBackground, fListOfBGPars,
                          fBackgroundFunction, nConstructed>>]_vars

\* Draw built a curve from a fitted total function and a global background
\* with a cached background function in place.
C9_Witness ==
    /\ ret.op = "Draw"
    /\ ret.built
    /\ fTotalFunction # NullPtr
    /\ fBackgroundFunction # NullPtr
    /\ \E i \in 1..fTotalFunction.npar : fTotalFunction.params[i] > 0
    /\ \E j \in 1..fGlobalBackground.npar : fGlobalBackground.params[j] > 0

\* C10: once an Add has made the sub run number meaningless, every later Add
\* leaves it at -1 and run start and run stop at 0.
C10_MeaninglessStays ==
    meaningless => (fSubRunNumber = -1 /\ fRunStart = 0 /\ fRunStop = 0)

\* C11: after any sequence of SetBGO calls of either overload all eight
\* per-hit vectors have the length GetBGOMultiplicity(), so every getter
\* succeeds for every index below it.
C11_VectorsSameLength ==
    /\ \A getter \in BGOGetters : Len(BGOVector(getter)) = GetBGOMultiplicity
    /\ (ret.op \in BGOGetters => ret.err = "none")

====
